---- MODULE Spec2Model ----
(***************************************************************************)
(* Model of the Upbit altcoin screener (analysis/altcoin_screener.py), its *)
(* market-data collector (data/collector.py) and its callers (main.py).    *)
(*                                                                         *)
(* Conventions                                                             *)
(*   - KRW amounts (traded value, market cap) are in millions of KRW, so   *)
(*     100_000_000 KRW is 100.  Prices are in KRW.                         *)
(*   - Scores are in 1/40 of a point (Points(n) is n points), which keeps  *)
(*     every sub-score of calculate_score an integer.                      *)
(*   - A Python dict is a function with a string domain; the empty dict is *)
(*     EmptyDict.  A Python list is a sequence.                            *)
(*   - A market identifier is the token sequence of its string:            *)
(*     "KRW-BTC" is <<"KRW", "-", "BTC">>, "BTC/KRW" is <<"BTC","/","KRW">>*)
(*   - Display strings (tiers, rationale phrases) are written in English.  *)
(***************************************************************************)
EXTENDS Integers, Sequences, FiniteSets, TLC

VARIABLES
    pc,          \* position of the caller / of screen_all_markets
    entry,       \* which entry point is running: find_gems or run_daily_screening
    passes,      \* number of screen_all_markets passes started in this run
    criteria,    \* self.criteria of the screener of the current pass
    markets,     \* screen_all_markets: the filtered market list
    idx,         \* screen_all_markets: index of the market being screened
    step,        \* screen_single_market: the next step for markets[idx]
    cur,         \* screen_single_market: locals measured so far
    calls,       \* evaluators and fetches invoked for markets[idx], with their verdict
    outcomes,    \* per market screened in this pass: "candidate" or "rejected"
    candidates,  \* screen_all_markets: the candidates list being built
    result,      \* return value of the last screen_all_markets
    firstResult, \* return value of the primary pass (find_gems)
    report,      \* return value of run_daily_screening, response of /api/search
    ev,          \* last function applied on its own (evaluator and scorer harness)
    sleeps       \* screen_all_markets: time.sleep calls made in this pass

vars == <<pc, entry, passes, criteria, markets, idx, step, cur, calls,
          outcomes, candidates, result, firstResult, report, ev, sleeps>>

----------------------------------------------------------------------------
(* Bounds *)

MaxMarkets == 3

\* markets in the exchange's answer to a web search, whose lenient
\* criteria let nearly every combination of measured values through
MaxSearchMarkets == 1

\* length of the close series the RSI formula is applied to
MaxSeriesLen == 5

----------------------------------------------------------------------------
(* Generic helpers (Python built-ins) *)

\* float('nan'): a value outside the range of every measured value; no
\* arithmetic is done on it and every comparison with it is False
NaN == -1000000

\* float('inf'): above every measured value and every band
Inf == 1000000

None == "None"

EmptyDict == <<>>

Min(a, b) == IF a <= b THEN a ELSE b

Max(a, b) == IF a >= b THEN a ELSE b

Abs(a) == IF a < 0 THEN -a ELSE a

\* d.get(k, default)
Get(d, k, default) == IF k \in DOMAIN d THEN d[k] ELSE default

\* "not d" for a dict or a list
IsEmpty(d) == DOMAIN d = {}

\* lo <= x <= hi on floats: every comparison with NaN is False
Between(lo, x, hi) == x # NaN /\ lo <= x /\ x <= hi

\* s[:n]
Take(s, n) == SubSeq(s, 1, Min(n, Len(s)))

Rep(n, x) == [i \in 1..n |-> x]

RECURSIVE SumSeq(_)
SumSeq(s) == IF s = <<>> THEN 0 ELSE Head(s) + SumSeq(Tail(s))

RECURSIVE MaxSeq(_)
MaxSeq(s) == IF Len(s) = 1 THEN s[1] ELSE Max(s[1], MaxSeq(Tail(s)))

Points(n) == 40 * n

----------------------------------------------------------------------------
(* ScreenerCriteria and the criteria objects the callers build *)

ScreenerCriteria ==
    [ exchange                |-> "UPBIT",
      base_currency           |-> "KRW",
      min_daily_volume_krw    |-> 100,
      max_listing_days        |-> 1648,
      min_decline_from_ath    |-> 30,
      volatility_min          |-> 10,
      volatility_max          |-> 150,
      cci_min                 |-> -200,
      cci_max                 |-> 200,
      cci_period              |-> 20,
      rsi_min                 |-> 20,
      rsi_max                 |-> 80,
      rsi_period              |-> 14,
      min_market_cap_krw      |-> 10000,
      max_market_cap_krw      |-> 500000,
      volume_growth_min       |-> 50,
      volume_growth_days      |-> 7,
      max_consecutive_decline |-> 5,
      max_recent_spike        |-> 30,
      recent_spike_days       |-> 3,
      require_above_ma        |-> TRUE,
      ma_period               |-> 20 ]

\* find_gems: the primary criteria
GemsCriteria ==
    [ScreenerCriteria EXCEPT
        !.min_daily_volume_krw = 50,
        !.min_decline_from_ath = 20,
        !.rsi_min = 25,
        !.rsi_max = 75,
        !.min_market_cap_krw = 30000,
        !.max_market_cap_krw = 800000,
        !.volume_growth_min = 20,
        !.volatility_min = 10,
        !.volatility_max = 120]

\* variant: a backup with an RSI floor above the primary one
BackupCriteria_HigherRSIFloor ==
    [ScreenerCriteria EXCEPT
        !.min_daily_volume_krw = 30,
        !.min_decline_from_ath = 15,
        !.rsi_min = 30,
        !.rsi_max = 80,
        !.min_market_cap_krw = 20000,
        !.max_market_cap_krw = 1000000,
        !.volume_growth_min = 10,
        !.volatility_min = 5,
        !.volatility_max = 150]

\* find_gems: the looser backup criteria
BackupCriteria ==
    [ScreenerCriteria EXCEPT
        !.min_daily_volume_krw = 30,
        !.min_decline_from_ath = 15,
        !.rsi_min = 20,
        !.rsi_max = 80,
        !.min_market_cap_krw = 20000,
        !.max_market_cap_krw = 1000000,
        !.volume_growth_min = 10,
        !.volatility_min = 5,
        !.volatility_max = 150]

\* /api/search: the criteria of the web basic search
SearchCriteria ==
    [ScreenerCriteria EXCEPT
        !.min_daily_volume_krw = 1,
        !.min_decline_from_ath = 1,
        !.rsi_min = 10,
        !.rsi_max = 90,
        !.min_market_cap_krw = 1000,
        !.max_market_cap_krw = 10000000,
        !.volume_growth_min = 0,
        !.volatility_min = 1,
        !.volatility_max = 500]

\* criteria a caller of UpbitAltcoinScreener(criteria) may pass: the
\* dataclass accepts any field values
LargeCapCriteria ==
    [ScreenerCriteria EXCEPT !.min_market_cap_krw = 60000]

ShortStreakCriteria ==
    [ScreenerCriteria EXCEPT !.max_consecutive_decline = 2,
                             !.require_above_ma = FALSE]

\* the default bands with a decline floor and a growth floor of 20
ScenarioCriteria ==
    [ScreenerCriteria EXCEPT !.min_decline_from_ath = 20, !.volume_growth_min = 20]

\* no volume floor
ZeroFloorCriteria ==
    [ScreenerCriteria EXCEPT !.min_daily_volume_krw = 0]

CriteriaSet ==
    {ScreenerCriteria, GemsCriteria, BackupCriteria,
     LargeCapCriteria, ShortStreakCriteria}

----------------------------------------------------------------------------
(* Market identifiers *)

Mkt(quote, sep, base) == <<quote, sep, base>>

\* the markets the exchange may list, in its listing order
AllMarkets ==
    << Mkt("KRW", "-", "BTC"), Mkt("KRW", "-", "XRP"),
       Mkt("BTC", "-", "ETH"), Mkt("KRW", "-", "DOGE") >>

\* s.startswith('KRW-')
StartsWithKRW(s) == Len(s) >= 2 /\ s[1] = "KRW" /\ s[2] = "-"

\* s.replace('KRW-', '')
RECURSIVE RemoveKRWPrefix(_)
RemoveKRWPrefix(s) ==
    IF s = <<>> THEN <<>>
    ELSE IF StartsWithKRW(s) THEN RemoveKRWPrefix(SubSeq(s, 3, Len(s)))
    ELSE <<Head(s)>> \o RemoveKRWPrefix(Tail(s))

\* s.replace('-', '')
RemoveDashes(s) == SelectSeq(s, LAMBDA t : t # "-")

----------------------------------------------------------------------------
(* Exchange responses: the inputs of the collector *)

\* daily candles, as the exchange's JSON objects (the fields the code reads)
Candle(close, high, value, volume) ==
    [ trade_price             |-> close,
      high_price              |-> high,
      candle_acc_trade_price  |-> value,
      candle_acc_trade_volume |-> volume ]

CandleSet ==
    { Candle(40, 100, 250, 10), Candle(80, 100, 60, 15), Candle(100, 100, 20, 10) }

\* the candles h, newest first, with their dates: day Len(h) is the newest
Dated(h) ==
    [i \in 1..Len(h) |->
        [ trade_price             |-> h[i].trade_price,
          high_price              |-> h[i].high_price,
          candle_acc_trade_price  |-> h[i].candle_acc_trade_price,
          candle_acc_trade_volume |-> h[i].candle_acc_trade_volume,
          candle_date_time_utc    |-> Len(h) - i + 1 ]]

\* block lengths <<n, m>> of the candle histories: n newest candles of one
\* kind followed by m older candles of another
HistoryShapes == { <<0, 0>>, <<1, 0>>, <<7, 7>>, <<7, 13>> }

\* candle histories of a market, newest candle first
Histories ==
    { Dated(Rep(s[1], a) \o Rep(s[2], b)) : a \in CandleSet, b \in CandleSet, s \in HistoryShapes }

\* histories whose two newest candles differ from the older ones: the
\* closes of consecutive days rise or fall
TrendHistories ==
    { Dated(<<a, b>> \o Rep(n, c)) :
        a \in CandleSet, b \in CandleSet, c \in CandleSet, n \in {2, 30} }

StatusCodes == {200, 500}

\* what the exchange can hold and answer for one candle request
Exchanges == [hist : Histories, status : StatusCodes]

TrendExchanges == Exchanges \cup [hist : TrendHistories, status : {200}]

\* GET /v1/candles/days?market=..&count=..: at most count candles
CandleResponse(hist, count, status) ==
    [ status_code |-> status,
      json        |-> IF status = 200 THEN Take(hist, count) ELSE <<>> ]

\* GET /v1/ticker?markets=market
TickerResponses(market) ==
    { [status_code |-> 500, json |-> <<>>],
      [status_code |-> 200, json |-> <<>>],
      [status_code |-> 200, json |-> << [market |-> market] >>],
      [status_code |-> 200, json |-> << [market |-> market, trade_price |-> 80] >>] }

\* GET /v1/ticker?markets=market, also with a price whose estimated market
\* cap (price * 1000000) is 5e10
CapTickerResponses(market) ==
    TickerResponses(market) \cup
    { [status_code |-> 200, json |-> << [market |-> market, trade_price |-> 50000] >>] }

\* the elements of q at the positions in S, in the order of q
RECURSIVE Pick(_, _)
Pick(q, S) ==
    IF q = <<>> THEN <<>>
    ELSE LET n == Len(q)
         IN  Pick(SubSeq(q, 1, n - 1), S) \o (IF n \in S THEN <<q[n]>> ELSE <<>>)

\* GET /v1/market/all: some of the markets, at most MaxMarkets of them
MarketResponses ==
    { [status_code |-> 500, json |-> <<>>] } \cup
    { [status_code |-> 200,
       json |-> LET q == Pick(AllMarkets, S) IN [i \in 1..Len(q) |-> [market |-> q[i]]]] :
        S \in { T \in SUBSET (1..Len(AllMarkets)) : Cardinality(T) <= MaxMarkets } }

----------------------------------------------------------------------------
(* UpbitDataCollector *)

get_all_markets(response) ==
    IF response.status_code = 200 THEN response.json ELSE <<>>

get_krw_markets(response) ==
    LET all  == get_all_markets(response)
        krw  == SelectSeq(all, LAMBDA m : StartsWithKRW(m.market))
    IN  [i \in 1..Len(krw) |-> krw[i].market]

get_ticker_info(mkts, response) ==
    IF mkts = <<>> THEN <<>>
    ELSE IF response.status_code = 200 THEN response.json ELSE <<>>

\* ex: what the exchange holds and answers for this request,
\* [hist |-> candle history, status |-> HTTP status]
get_candles_daily(ex, count) ==
    LET response == CandleResponse(ex.hist, count, ex.status)
    IN  IF response.status_code = 200 THEN response.json ELSE <<>>

Column(candles, field) == [i \in 1..Len(candles) |-> candles[i][field]]

get_volume_info(market, ex, days) ==
    LET candles == get_candles_daily(ex, days)
        volumes == Column(candles, "candle_acc_trade_price")
    IN  IF candles = <<>> THEN EmptyDict
        ELSE [ market            |-> market,
               avg_volume_krw    |-> SumSeq(volumes) \div Len(volumes),
               latest_volume_krw |-> volumes[1],
               max_volume_krw    |-> MaxSeq(volumes) ]

\* the DataFrame keeps the rows in the order of the response
get_ohlcv_dataframe(ex, days) ==
    LET candles == get_candles_daily(ex, days)
    IN  [i \in 1..Len(candles) |->
            [ timestamp |-> candles[i].candle_date_time_utc,
              high   |-> candles[i].high_price,
              close  |-> candles[i].trade_price,
              volume |-> candles[i].candle_acc_trade_volume ]]

\* candles[0], which get_all_time_high takes as the newest candle
ath_current_candle(candles) == candles[1]

\* s.iloc[-1] and s.iloc[-n:]
iloc_last(s) == s[Len(s)]

iloc_tail(s, n) == SubSeq(s, Len(s) - n + 1, Len(s))

get_all_time_high(market, ex) ==
    LET candles       == get_candles_daily(ex, 200)
        highs         == Column(candles, "high_price")
        max_high      == MaxSeq(highs)
        current_price == ath_current_candle(candles).trade_price
    IN  IF candles = <<>> THEN EmptyDict
        ELSE IF max_high = 0 THEN EmptyDict   \* ZeroDivisionError, caught
        ELSE [ market           |-> market,
               all_time_high    |-> max_high,
               current_price    |-> current_price,
               decline_from_ath |-> ((max_high - current_price) * 100) \div max_high ]

\* sigma: std of the daily returns * sqrt(252) * 100 of the frame, when it
\* has at least two returns
calculate_volatility(ex, days, sigma) ==
    LET df == get_ohlcv_dataframe(ex, days)
    IN  IF df = <<>> THEN 0
        ELSE IF Len(df) < 3 THEN NaN
        ELSE sigma

get_volume_growth(market, ex, days) ==
    LET df              == get_ohlcv_dataframe(ex, days * 2)
        vol             == Column(df, "volume")
        n               == Len(df)
        recent_volume   == SumSeq(iloc_tail(vol, days))
        previous_volume == SumSeq(SubSeq(vol, n - 2 * days + 1, n - days))
        growth_rate     == IF previous_volume > 0
                           THEN ((recent_volume - previous_volume) * 100) \div previous_volume
                           ELSE 0
    IN  IF df = <<>> \/ n < days * 2 THEN EmptyDict
        ELSE [ market      |-> market,
               growth_rate |-> growth_rate,
               trend       |-> IF growth_rate > 20 THEN "increasing"
                               ELSE IF growth_rate < -20 THEN "decreasing"
                               ELSE "stable" ]

get_listing_info(market) ==
    [ korean_name  |-> RemoveDashes(RemoveKRWPrefix(market)),
      english_name |-> RemoveDashes(RemoveKRWPrefix(market)),
      listing_date |-> None ]

\* variant: one cache entry for all markets
listing_cache_key_Shared(market) == <<"listing_info_">>

\* cache_key = f"listing_info_{market}"
listing_cache_key(market) == <<"listing_info_">> \o market

\* get_listing_info on a collector whose self.cache holds the entries
\* cache, a set of [key, data]: the info returned and the cache afterwards
cached_listing_info(cache, market) ==
    LET cache_key == listing_cache_key(market)
        hit       == {e \in cache : e.key = cache_key}
        info      == get_listing_info(market)
    IN  IF hit # {}
        THEN [info |-> (CHOOSE e \in hit : TRUE).data, cache |-> cache]
        ELSE [info |-> info, cache |-> cache \cup {[key |-> cache_key, data |-> info]}]

get_market_cap(response, market) ==
    LET ticker_info == get_ticker_info(<<market>>, response)
    IN  IF ticker_info = <<>>
        THEN [market_cap_krw |-> 50000, estimated |-> TRUE]
        ELSE IF "trade_price" \notin DOMAIN ticker_info[1]   \* KeyError, caught
        THEN [market_cap_krw |-> 50000, estimated |-> TRUE]
        ELSE [ market_cap_krw |-> ticker_info[1].trade_price,   \* price * 1000000 KRW
               estimated      |-> TRUE,
               current_price  |-> ticker_info[1].trade_price ]

RECURSIVE DeclineCount(_, _, _)
DeclineCount(candles, i, n) ==
    IF i > n THEN 0
    ELSE IF candles[i].trade_price < candles[i + 1].trade_price
         THEN 1 + DeclineCount(candles, i + 1, n)
         ELSE 0

check_consecutive_decline(ex, days) ==
    LET candles == get_candles_daily(ex, days * 2)
        count   == DeclineCount(candles, 1, Min(days, Len(candles) - 1))
    IN  IF candles = <<>> \/ Len(candles) < days
        THEN [consecutive_decline |-> 0, is_declining |-> FALSE]
        ELSE [consecutive_decline |-> count, is_declining |-> count >= days]

get_price_vs_moving_average(ex, ma_period) ==
    LET candles       == get_candles_daily(ex, ma_period + 10)
        current_price == candles[1].trade_price
        prices        == Column(Take(candles, ma_period), "trade_price")
        ma_value      == SumSeq(prices) \div Len(prices)
    IN  IF candles = <<>> \/ Len(candles) < ma_period
        THEN [position |-> 0, ma_value |-> 0, current_price |-> 0]
        ELSE IF ma_value = 0                   \* ZeroDivisionError, caught
        THEN [position |-> 0, ma_value |-> 0, current_price |-> 0]
        ELSE [ position      |-> ((current_price - ma_value) * 100) \div ma_value,
               ma_value      |-> ma_value,
               current_price |-> current_price ]

\* the keyword parameters check_recent_spike(self, market, days=7) accepts
check_recent_spike_params == {"market", "days"}

\* a percentage change (cur - prev) / prev * 100, kept as the exact fraction
\* num / den with den > 0
Change(now, prev) == [num |-> (now - prev) * 100, den |-> prev]

\* variant: the comparison without the abs
AbsGreater_Signed(x, y) == x.num * y.den > y.num * x.den

\* abs(x) > abs(y) on fractions
AbsGreater(x, y) == Abs(x.num) * y.den > Abs(y.num) * x.den

\* x > n and x < n on a fraction and an integer
FracGt(x, n) == x.num > n * x.den

FracLt(x, n) == x.num < n * x.den

SpikeType(change_percent, spike_type) ==
    IF FracGt(change_percent, 20) THEN "strong_up"
    ELSE IF FracGt(change_percent, 10) THEN "moderate_up"
    ELSE IF FracLt(change_percent, -20) THEN "strong_down"
    ELSE IF FracLt(change_percent, -10) THEN "moderate_down"
    ELSE spike_type

\* the loop of check_recent_spike from index i on, with the running
\* acc = [max_change, spike_type]
RECURSIVE SpikeLoop(_, _, _, _)
SpikeLoop(candles, i, n, acc) ==
    IF i > n THEN acc
    ELSE LET change_percent == Change(candles[i].trade_price, candles[i + 1].trade_price)
         IN  IF AbsGreater(change_percent, acc.max_change)
             THEN SpikeLoop(candles, i + 1, n,
                            [max_change |-> change_percent,
                             spike_type |-> SpikeType(change_percent, acc.spike_type)])
             ELSE SpikeLoop(candles, i + 1, n, acc)

check_recent_spike(ex, days) ==
    LET candles == get_candles_daily(ex, days * 2)
        n       == Min(days, Len(candles) - 1)
        start   == [max_change |-> [num |-> 0, den |-> 1], spike_type |-> "none"]
    IN  IF candles = <<>> \/ Len(candles) < days THEN start
        ELSE IF \E i \in 1..n : candles[i + 1].trade_price = 0   \* ZeroDivisionError, caught
        THEN start
        ELSE SpikeLoop(candles, 1, n, start)

----------------------------------------------------------------------------
(* TechnicalAnalyzer: the latest value of an indicator column.  v is the    *)
(* value the indicator formula gives on the last row when the window is    *)
(* full (NaN when the formula divides 0 by 0).                             *)

\* df['CCI'].iloc[-1] after calculate_cci(df, period)
calculate_cci(df, period, v) == IF Len(df) < period THEN NaN ELSE v

\* df['RSI'].iloc[-1] after calculate_rsi(df, period)
calculate_rsi(df, period, v) == IF Len(df) < period THEN NaN ELSE v

\* prices.diff(): NaN on the first row
Diff(prices) ==
    [i \in 1..Len(prices) |-> IF i = 1 THEN NaN ELSE prices[i] - prices[i - 1]]

\* delta.where(delta > 0, 0): a NaN delta fails the condition and becomes 0
Gains(delta) ==
    [i \in 1..Len(delta) |-> IF delta[i] # NaN /\ delta[i] > 0 THEN delta[i] ELSE 0]

\* -delta.where(delta < 0, 0)
Losses(delta) ==
    [i \in 1..Len(delta) |-> IF delta[i] # NaN /\ delta[i] < 0 THEN -delta[i] ELSE 0]

\* s.rolling(window=period).mean() at row i, times period: the sum of the
\* window, NaN while the window is not full
RollingSum(s, period, i) ==
    IF i < period THEN NaN ELSE SumSeq(SubSeq(s, i - period + 1, i))

\* 100 - 100 / (1 + gain / loss) in float arithmetic: 0 / 0 is NaN,
\* gain / 0 is inf and 100 / inf is 0; a value between two integers is
\* rounded down
RSIValue(gain, loss) ==
    IF gain = NaN \/ loss = NaN THEN NaN
    ELSE IF loss = 0 THEN (IF gain = 0 THEN NaN ELSE 100)
    ELSE (100 * gain) \div (gain + loss)

\* TechnicalAnalyzer._calculate_rsi_manual: the RSI column
calculate_rsi_manual(prices, period) ==
    LET delta == Diff(prices)
        gain  == Gains(delta)
        loss  == Losses(delta)
    IN  [i \in 1..Len(prices) |->
            RSIValue(RollingSum(gain, period, i), RollingSum(loss, period, i))]

VolatilityValues == {3, 65, 200}

\* NaN: 0 / 0 on a flat window; Inf: a rounding residue over a zero mean
\* deviation
CCIValues == {-250, 10, 190, NaN, Inf}

\* NaN: zero average gain over zero average loss
RSIValues == {15, 50, 85, NaN}

----------------------------------------------------------------------------
(* UpbitAltcoinScreener: the criterion evaluators, each returning          *)
(* <<meets_criteria, measured value(s)>>                                   *)

\* self.exclude_symbols
exclude_symbols ==
    { Mkt("BTC", "/", "KRW"), Mkt("ETH", "/", "KRW"), Mkt("BNB", "/", "KRW"),
      Mkt("ADA", "/", "KRW"), Mkt("USDT", "/", "KRW"), Mkt("USDC", "/", "KRW"),
      Mkt("BUSD", "/", "KRW"), Mkt("DAI", "/", "KRW"), Mkt("TUSD", "/", "KRW"),
      Mkt("FDUSD", "/", "KRW") }

\* UpbitAltcoinScreener.get_krw_markets
screener_get_krw_markets(response) ==
    SelectSeq(get_krw_markets(response), LAMBDA market : market \notin exclude_symbols)

check_volume_criteria(c, market, ex) ==
    LET volume_info == get_volume_info(market, ex, 7)
        avg_volume  == Get(volume_info, "avg_volume_krw", 0)
    IN  IF IsEmpty(volume_info) THEN <<FALSE, 0>>
        ELSE <<avg_volume >= c.min_daily_volume_krw, avg_volume>>

check_ath_decline_criteria(c, market, ex) ==
    LET ath_info     == get_all_time_high(market, ex)
        ath          == Get(ath_info, "all_time_high", 0)
        decline_rate == Get(ath_info, "decline_from_ath", 0)
    IN  IF IsEmpty(ath_info) THEN <<FALSE, 0, 0>>
        ELSE <<decline_rate >= c.min_decline_from_ath, ath, decline_rate>>

check_volatility_criteria(c, market, ex, sigma) ==
    LET volatility == calculate_volatility(ex, 30, sigma)
    IN  <<Between(c.volatility_min, volatility, c.volatility_max), volatility>>

check_cci_criteria(c, market, ex, v) ==
    LET df          == get_ohlcv_dataframe(ex, 50)
        current_cci == calculate_cci(df, c.cci_period, v)
    IN  IF df = <<>> THEN <<FALSE, 0>>
        ELSE IF current_cci = NaN THEN <<FALSE, 0>>
        ELSE <<Between(c.cci_min, current_cci, c.cci_max), current_cci>>

\* variant: no pd.isna check, and the band test written as
\* "not (rsi < rsi_min or rsi > rsi_max)", which NaN satisfies
check_rsi_criteria_NoNaNGuard(c, market, ex, v) ==
    LET df          == get_ohlcv_dataframe(ex, 50)
        current_rsi == calculate_rsi(df, c.rsi_period, v)
    IN  IF df = <<>> THEN <<FALSE, 0>>
        ELSE <<current_rsi = NaN \/ Between(c.rsi_min, current_rsi, c.rsi_max), current_rsi>>

check_rsi_criteria(c, market, ex, v) ==
    LET df          == get_ohlcv_dataframe(ex, 50)
        current_rsi == calculate_rsi(df, c.rsi_period, v)
    IN  IF df = <<>> THEN <<FALSE, 0>>
        ELSE IF current_rsi = NaN THEN <<FALSE, 0>>
        ELSE <<Between(c.rsi_min, current_rsi, c.rsi_max), current_rsi>>

check_market_cap_criteria(c, market, response) ==
    LET market_cap_info      == get_market_cap(response, market)
        estimated_market_cap == Get(market_cap_info, "estimated_market_cap_krw", 0)
    IN  IF IsEmpty(market_cap_info) THEN <<FALSE, 0>>
        ELSE <<Between(c.min_market_cap_krw, estimated_market_cap, c.max_market_cap_krw),
               estimated_market_cap>>

check_volume_growth_criteria(c, market, ex) ==
    LET volume_growth_info == get_volume_growth(market, ex, c.volume_growth_days)
        growth_rate        == Get(volume_growth_info, "growth_rate", 0)
    IN  IF IsEmpty(volume_growth_info) THEN <<FALSE, 0>>
        ELSE <<growth_rate >= c.volume_growth_min, growth_rate>>

check_consecutive_decline_criteria(c, market, ex) ==
    LET decline_info        == check_consecutive_decline(ex, c.max_consecutive_decline)
        consecutive_decline == Get(decline_info, "consecutive_decline_days", 0)
    IN  IF IsEmpty(decline_info) THEN <<FALSE, 0>>
        ELSE <<consecutive_decline < c.max_consecutive_decline, consecutive_decline>>

\* the call passes spike_threshold=..., which check_recent_spike does not
\* accept: TypeError, caught by the evaluator's except
check_recent_spike_criteria(c, market, ex) ==
    LET spike_info == check_recent_spike(ex, c.recent_spike_days)
        has_spike  == Get(spike_info, "has_recent_spike", FALSE)
        spike_type == Get(spike_info, "spike_type", "none")
    IN  IF ~({"spike_threshold", "days"} \subseteq check_recent_spike_params)
        THEN <<FALSE, "none">>
        ELSE IF IsEmpty(spike_info) THEN <<FALSE, "none">>
        ELSE <<~has_spike, spike_type>>

check_moving_average_criteria(c, market, ex) ==
    LET ma_info      == get_price_vs_moving_average(ex, c.ma_period)
        above_ma     == Get(ma_info, "above_ma", FALSE)
        position_pct == Get(ma_info, "position_vs_ma_pct", 0)
    IN  IF IsEmpty(ma_info) THEN <<FALSE, 0>>
        ELSE <<IF c.require_above_ma THEN above_ma ELSE TRUE, position_pct>>

----------------------------------------------------------------------------
(* UpbitAltcoinScreener: score, tier, rationale *)

\* the seven sub-scores of calculate_score, in 1/40 points

\* min(15, volume / floor * 7.5)
volume_score(c, volume) == Min(Points(15), (volume * 300) \div c.min_daily_volume_krw)

\* variant: the ATH sub-score peaks at a 50 % decline
ath_score_Peaked(ath_decline) == Max(0, Points(15) - Abs(ath_decline - 50) * 12)

\* min(15, ath_decline / 100 * 15)
ath_score(ath_decline) == Min(Points(15), ath_decline * 6)

\* max(0, 15 - |volatility - mid| * 0.3), mid the middle of the band
volatility_score(c, volatility) ==
    Max(0, Points(15) - Abs(2 * volatility - (c.volatility_min + c.volatility_max)) * 6)

\* max(0, 15 - |cci| * 0.3)
cci_score(cci) == Max(0, Points(15) - Abs(cci) * 12)

\* max(0, 15 - |rsi - 50| * 0.3)
rsi_score(rsi) ==
    LET rsi_optimal == 50
    IN  Max(0, Points(15) - Abs(rsi - rsi_optimal) * 12)

\* variant: ten times the penalty per unit of distance from the optimum
market_cap_score_Steep(market_cap) ==
    LET market_cap_optimal == 100000
    IN  Max(0, Points(15) - (Abs(market_cap - market_cap_optimal) * 4000) \div market_cap_optimal)

\* max(0, 15 - |market_cap - optimal| / optimal * 10)
market_cap_score(market_cap) ==
    LET market_cap_optimal == 100000
    IN  Max(0, Points(15) - (Abs(market_cap - market_cap_optimal) * 400) \div market_cap_optimal)

\* max(0, min(10, volume_growth / 100 * 10))
volume_growth_score(volume_growth) == Max(0, Min(Points(10), volume_growth * 4))

\* in 1/40 points; volume / 0 raises ZeroDivisionError, caught: 0.0
calculate_score(c, volume, ath_decline, volatility, cci, rsi, market_cap, volume_growth) ==
    IF c.min_daily_volume_krw = 0 THEN 0
    ELSE volume_score(c, volume) + ath_score(ath_decline) + volatility_score(c, volatility)
         + cci_score(cci) + rsi_score(rsi) + market_cap_score(market_cap)
         + volume_growth_score(volume_growth)

\* variant: the "recommended" tier starts at 65 points
get_recommendation_Shifted(score) ==
    IF score >= Points(80) THEN "highly recommended"
    ELSE IF score >= Points(65) THEN "recommended"
    ELSE IF score >= Points(40) THEN "watch"
    ELSE "needs review"

get_recommendation(score) ==
    IF score >= Points(80) THEN "highly recommended"
    ELSE IF score >= Points(60) THEN "recommended"
    ELSE IF score >= Points(40) THEN "watch"
    ELSE "needs review"

\* the matched phrases, before the cut to three
ReasonPhrases(volume, ath_decline, rsi, volatility, volume_growth) ==
       (IF volume > 200 THEN << <<"high volume">> >>
        ELSE IF volume > 100 THEN << <<"sufficient volume">> >> ELSE <<>>)
    \o (IF ath_decline > 50 THEN << <<"large upside room">> >>
        ELSE IF ath_decline > 30 THEN << <<"upside room">> >> ELSE <<>>)
    \o (IF 30 <= rsi /\ rsi <= 70 THEN << <<"stable RSI", rsi>> >>
        ELSE IF rsi < 30 THEN << <<"oversold">> >> ELSE <<>>)
    \o (IF volatility < 50 THEN << <<"stable volatility">> >>
        ELSE IF volatility > 100 THEN << <<"high volatility">> >> ELSE <<>>)
    \o (IF volume_growth > 50 THEN << <<"volume surge">> >>
        ELSE IF volume_growth > 20 THEN << <<"volume increase">> >> ELSE <<>>)

\* variant: the last three matched phrases are kept
generate_reason_LastThree(volume, ath_decline, rsi, volatility, volume_growth) ==
    LET reasons          == ReasonPhrases(volume, ath_decline, rsi, volatility, volume_growth)
        selected_reasons == SubSeq(reasons, Max(1, Len(reasons) - 2), Len(reasons))
    IN  IF selected_reasons # <<>> THEN selected_reasons
        ELSE << <<"basic conditions met">> >>

\* the phrases joined by ", "
generate_reason(volume, ath_decline, rsi, volatility, volume_growth) ==
    LET reasons          == ReasonPhrases(volume, ath_decline, rsi, volatility, volume_growth)
        selected_reasons == Take(reasons, 3)
    IN  IF selected_reasons # <<>> THEN selected_reasons
        ELSE << <<"basic conditions met">> >>

\* variant: a sort that puts a later candidate before the earlier ones of
\* equal score
RECURSIVE SortByScoreDesc_Unstable(_)
SortByScoreDesc_Unstable(cands) ==
    IF cands = <<>> THEN <<>>
    ELSE LET n      == Len(cands)
             last   == cands[n]
             sorted == SortByScoreDesc_Unstable(SubSeq(cands, 1, n - 1))
             k      == Cardinality({i \in 1..(n - 1) : sorted[i].score > last.score})
         IN  SubSeq(sorted, 1, k) \o <<last>> \o SubSeq(sorted, k + 1, n - 1)

\* candidates.sort(key=lambda x: x.score, reverse=True): stable, so equal
\* scores keep their order
RECURSIVE SortByScoreDesc(_)
SortByScoreDesc(cands) ==
    IF cands = <<>> THEN <<>>
    ELSE LET n      == Len(cands)
             last   == cands[n]
             sorted == SortByScoreDesc(SubSeq(cands, 1, n - 1))
             k      == Cardinality({i \in 1..(n - 1) : sorted[i].score >= last.score})
         IN  SubSeq(sorted, 1, k) \o <<last>> \o SubSeq(sorted, k + 1, n - 1)

\* variant: the last candidate of the list as top_candidate
report_summary_TopIsLast(cands) ==
    [ very_recommended |-> Len(SelectSeq(cands, LAMBDA x : x.recommendation = "highly recommended")),
      recommended      |-> Len(SelectSeq(cands, LAMBDA x : x.recommendation = "recommended")),
      interesting      |-> Len(SelectSeq(cands, LAMBDA x : x.recommendation = "watch")),
      top_candidate    |-> cands[Len(cands)] ]

\* report['summary'] of a non-empty list: the three tier counts and
\* candidates[0]
report_summary(cands) ==
    [ very_recommended |-> Len(SelectSeq(cands, LAMBDA x : x.recommendation = "highly recommended")),
      recommended      |-> Len(SelectSeq(cands, LAMBDA x : x.recommendation = "recommended")),
      interesting      |-> Len(SelectSeq(cands, LAMBDA x : x.recommendation = "watch")),
      top_candidate    |-> cands[1] ]

\* variant: the empty case returns the {} of the error path
generate_report_EmptyDict(c, cands) ==
    IF cands = <<>>
    THEN EmptyDict
    ELSE [ criteria         |-> c,
           total_candidates |-> Len(cands),
           candidates       |-> cands,
           summary          |-> report_summary(cands) ]

generate_report(c, cands) ==
    IF cands = <<>>
    THEN [ criteria         |-> c,
           total_candidates |-> 0,
           candidates       |-> <<>>,
           summary          |-> "no altcoin meets the criteria" ]
    ELSE [ criteria         |-> c,
           total_candidates |-> Len(cands),
           candidates       |-> cands,
           summary          |-> report_summary(cands) ]

----------------------------------------------------------------------------
(* screen_single_market and screen_all_markets, one action per blocking    *)
(* step                                                                    *)

\* the steps of screen_single_market, in program order
StepOrder ==
    << "volume", "ath_decline", "volatility", "cci", "rsi", "volume_growth", "ticker" >>

StepIndex(s) == CHOOSE i \in 1..Len(StepOrder) : StepOrder[i] = s

\* variant: the CCI check placed before the volatility check
NextStep_Reordered(s) ==
    LET order == << "volume", "ath_decline", "cci", "volatility", "rsi", "volume_growth", "ticker" >>
        i     == CHOOSE k \in 1..Len(order) : order[k] = s
    IN  IF s = "ath_decline" THEN "cci"
        ELSE IF s = "cci" THEN "volatility"
        ELSE IF s = "volatility" THEN "rsi"
        ELSE order[i + 1]

\* the step that follows evaluator s when it passes
NextStep(s) == StepOrder[StepIndex(s) + 1]

\* variant: the "return None" after a failed volume growth check is missing
AfterEvaluator_NoReturnOnGrowth(s, ok) ==
    IF ok \/ s = "volume_growth" THEN NextStep(s) ELSE "sleep"

\* "if not x_ok: return None": where screen_single_market goes after an
\* evaluator returned ok
AfterEvaluator(s, ok) == IF ok THEN NextStep(s) ELSE "sleep"

\* variant: an error on one market ends the loop ("break" for "continue")
LoopDone_BreakOnError(i, n, outcome) == i >= n \/ outcome = "error"

\* the for loop of screen_all_markets is over after market i of n
LoopDone(i, n, outcome) == i >= n

\* variant: the backup pass is run whatever the primary pass returned
NeedsBackup_Always(cands) == TRUE

\* find_gems: "if not candidates:" after the primary pass
NeedsBackup(cands) == cands = <<>>

NoLocals ==
    [ volume |-> 0, ath |-> 0, ath_decline |-> 0, volatility |-> 0,
      cci |-> 0, rsi |-> 0, volume_growth |-> 0 ]

Call(name, ok, value) == [name |-> name, ok |-> ok, value |-> value]

NoReport == <<>>

NoEval == [name |-> "none"]

Init ==
    /\ pc = "idle"
    /\ entry = "none"
    /\ passes = 0
    /\ criteria = ScreenerCriteria
    /\ markets = <<>>
    /\ idx = 0
    /\ step = "none"
    /\ cur = NoLocals
    /\ calls = <<>>
    /\ outcomes = <<>>
    /\ candidates = <<>>
    /\ result = <<>>
    /\ firstResult = <<>>
    /\ report = NoReport
    /\ ev = NoEval
    /\ sleeps = 0

\* /api/search: the reason rebuilt from the candidate's fields
SearchReason(candidate) ==
    LET reason_parts ==
               (IF candidate.volume_krw > 200 THEN << <<"high volume">> >>
                ELSE IF candidate.volume_krw > 100 THEN << <<"sufficient volume">> >> ELSE <<>>)
            \o (IF candidate.ath_decline > 50 THEN << <<"large upside room">> >>
                ELSE IF candidate.ath_decline > 30 THEN << <<"upside room">> >> ELSE <<>>)
            \o (IF 30 <= candidate.rsi /\ candidate.rsi <= 70
                THEN << <<"stable RSI", candidate.rsi>> >>
                ELSE IF candidate.rsi < 30 THEN << <<"oversold">> >> ELSE <<>>)
            \o (IF candidate.volume_growth > 50 THEN << <<"volume surge">> >>
                ELSE IF candidate.volume_growth > 20 THEN << <<"volume increase">> >> ELSE <<>>)
        selected_reasons == Take(reason_parts, 3)
    IN  IF selected_reasons # <<>> THEN selected_reasons
        ELSE << <<"basic conditions met">> >>

\* /api/search: the JSON body built from the screening result
SearchResponse(cands) ==
    [ success        |-> TRUE,
      candidates     |-> [k \in 1..Len(cands) |->
                            [ coin_name      |-> RemoveKRWPrefix(cands[k].symbol),
                              current_price  |-> cands[k].current_price,
                              volume_krw     |-> cands[k].volume_krw,
                              ath_decline    |-> cands[k].ath_decline,
                              score          |-> cands[k].score,
                              recommendation |-> cands[k].recommendation,
                              reason         |-> SearchReason(cands[k]) ]],
      total_analyzed |-> Len(cands),
      mode           |-> "basic" ]

\* find_gems up to its first screen_all_markets()
StartFindGems ==
    /\ pc = "idle"
    /\ entry' = "find_gems"
    /\ criteria' = GemsCriteria
    /\ passes' = 1
    /\ pc' = "get_markets"
    /\ UNCHANGED <<markets, idx, step, cur, calls, outcomes, candidates,
                   result, firstResult, report, ev, sleeps>>

\* UpbitAltcoinScreener(c).run_daily_screening() up to screen_all_markets()
StartDailyScreening ==
    /\ pc = "idle"
    /\ \E c \in CriteriaSet : criteria' = c
    /\ entry' = "run_daily_screening"
    /\ passes' = 1
    /\ pc' = "get_markets"
    /\ UNCHANGED <<markets, idx, step, cur, calls, outcomes, candidates,
                   result, firstResult, report, ev, sleeps>>

\* GET /api/search up to its screen_all_markets()
StartWebSearch ==
    /\ pc = "idle"
    /\ entry' = "web_search"
    /\ criteria' = SearchCriteria
    /\ passes' = 1
    /\ pc' = "get_markets"
    /\ UNCHANGED <<markets, idx, step, cur, calls, outcomes, candidates,
                   result, firstResult, report, ev, sleeps>>

\* screen_all_markets returns r: the rest of the caller up to its next
\* blocking call or its end
Return(r) ==
    /\ result' = r
    /\ IF entry = "run_daily_screening"
       THEN /\ report' = generate_report(criteria, r)
            /\ pc' = "done"
            /\ UNCHANGED <<passes, criteria, firstResult>>
       ELSE IF entry = "web_search"
       THEN /\ report' = SearchResponse(r)
            /\ pc' = "done"
            /\ UNCHANGED <<passes, criteria, firstResult>>
       ELSE IF passes = 1
       THEN /\ firstResult' = r
            /\ IF NeedsBackup(r)
               THEN /\ criteria' = BackupCriteria
                    /\ passes' = 2
                    /\ pc' = "get_markets"
               ELSE /\ pc' = "done"
                    /\ UNCHANGED <<passes, criteria>>
            /\ UNCHANGED report
       ELSE /\ pc' = "done"
            /\ UNCHANGED <<passes, criteria, firstResult, report>>

\* screen_all_markets: get_krw_markets(), "if not markets: return []"
GetMarkets ==
    /\ pc = "get_markets"
    /\ \E response \in MarketResponses :
          LET ms == screener_get_krw_markets(response)
          IN  /\ entry = "web_search" => Len(response.json) <= MaxSearchMarkets
              /\ markets' = ms
              /\ candidates' = <<>>
              /\ outcomes' = <<>>
              /\ sleeps' = 0
              /\ calls' = <<>>
              /\ cur' = NoLocals
              /\ IF ms = <<>>
                 THEN /\ idx' = 0
                      /\ step' = "none"
                      /\ Return(<<>>)
                 ELSE /\ idx' = 1
                      /\ step' = "volume"
                      /\ pc' = "screening"
                      /\ UNCHANGED <<passes, criteria, result, firstResult, report>>
    /\ UNCHANGED <<entry, ev>>

\* one evaluator step of screen_single_market: r is the evaluator's
\* result, field the local that receives its measured value
Evaluated(s, r, newcur) ==
    /\ calls' = Append(calls, Call(s, r[1], r[Len(r)]))
    /\ step' = AfterEvaluator(s, r[1])
    /\ cur' = IF r[1] THEN newcur ELSE cur
    /\ outcomes' = IF step' = "sleep" THEN Append(outcomes, "rejected") ELSE outcomes
    /\ UNCHANGED <<pc, entry, passes, criteria, markets, idx, candidates,
                   result, firstResult, report, ev, sleeps>>

CheckVolume ==
    /\ pc = "screening" /\ step = "volume"
    /\ \E ex \in Exchanges :
          LET r == check_volume_criteria(criteria, markets[idx], ex)
          IN  Evaluated("volume", r, [cur EXCEPT !.volume = r[2]])

CheckAthDecline ==
    /\ pc = "screening" /\ step = "ath_decline"
    /\ \E ex \in Exchanges :
          LET r == check_ath_decline_criteria(criteria, markets[idx], ex)
          IN  Evaluated("ath_decline", r, [cur EXCEPT !.ath = r[2], !.ath_decline = r[3]])

CheckVolatility ==
    /\ pc = "screening" /\ step = "volatility"
    /\ \E ex \in Exchanges, sigma \in VolatilityValues :
          LET r == check_volatility_criteria(criteria, markets[idx], ex, sigma)
          IN  Evaluated("volatility", r, [cur EXCEPT !.volatility = r[2]])

CheckCCI ==
    /\ pc = "screening" /\ step = "cci"
    /\ \E ex \in Exchanges, v \in CCIValues :
          LET r == check_cci_criteria(criteria, markets[idx], ex, v)
          IN  Evaluated("cci", r, [cur EXCEPT !.cci = r[2]])

CheckRSI ==
    /\ pc = "screening" /\ step = "rsi"
    /\ \E ex \in Exchanges, v \in RSIValues :
          LET r == check_rsi_criteria(criteria, markets[idx], ex, v)
          IN  Evaluated("rsi", r, [cur EXCEPT !.rsi = r[2]])

CheckVolumeGrowth ==
    /\ pc = "screening" /\ step = "volume_growth"
    /\ \E ex \in Exchanges :
          LET r == check_volume_growth_criteria(criteria, markets[idx], ex)
          IN  Evaluated("volume_growth", r, [cur EXCEPT !.volume_growth = r[2]])

\* steps 6 and 8-15 of screen_single_market: the stubbed criteria and the
\* candidate built from the locals and the ticker price
BuildCandidateNamed(c, market, m, current_price, market_info) ==
    LET market_cap          == 50000
        consecutive_decline == 2
        recent_spike        == "none"
        ma_position         == 5
        score == calculate_score(c, m.volume, m.ath_decline, m.volatility,
                                 m.cci, m.rsi, market_cap, m.volume_growth)
    IN  [ symbol              |-> market,
          name                |-> Get(market_info, "korean_name", market),
          current_price       |-> current_price,
          volume_krw          |-> m.volume,
          ath                 |-> m.ath,
          ath_decline         |-> m.ath_decline,
          volatility          |-> m.volatility,
          cci                 |-> m.cci,
          rsi                 |-> m.rsi,
          market_cap          |-> market_cap,
          volume_growth       |-> m.volume_growth,
          consecutive_decline |-> consecutive_decline,
          recent_spike        |-> recent_spike,
          ma_position         |-> ma_position,
          score               |-> score,
          recommendation      |-> get_recommendation(score),
          reason              |-> generate_reason(m.volume, m.ath_decline, m.rsi,
                                                  m.volatility, m.volume_growth) ]

BuildCandidate(c, market, m, current_price) ==
    BuildCandidateNamed(c, market, m, current_price, get_listing_info(market))

\* screen_single_market from the ticker fetch to its return
FetchTickerAndBuild ==
    /\ pc = "screening" /\ step = "ticker"
    /\ \E response \in TickerResponses(markets[idx]) :
          LET ticker_info == get_ticker_info(<<markets[idx]>>, response)
          IN  IF ticker_info = <<>>
              THEN /\ calls' = Append(calls, Call("ticker", FALSE, 0))
                   /\ outcomes' = Append(outcomes, "rejected")
                   /\ UNCHANGED candidates
              ELSE IF "trade_price" \notin DOMAIN ticker_info[1]   \* KeyError, caught at 531
              THEN /\ calls' = Append(calls, Call("ticker", FALSE, 0))
                   /\ outcomes' = Append(outcomes, "error")
                   /\ UNCHANGED candidates
              ELSE /\ calls' = calls \o << Call("ticker", TRUE, ticker_info[1].trade_price),
                                           Call("listing_info", TRUE, 0) >>
                   /\ outcomes' = Append(outcomes, "candidate")
                   /\ candidates' = Append(candidates,
                                           BuildCandidate(criteria, markets[idx], cur,
                                                          ticker_info[1].trade_price))
    /\ step' = "sleep"
    /\ UNCHANGED <<pc, entry, passes, criteria, markets, idx, cur,
                   result, firstResult, report, ev, sleeps>>

\* variant: the delay placed inside "if candidate:"
SleepsAfter_OnlyAfterCandidate(outcome) == IF outcome = "candidate" THEN 1 ELSE 0

\* the time.sleep(0.1) calls that follow screen_single_market(market) in
\* the loop body, whatever it returned
SleepsAfter(outcome) == 1

\* time.sleep(0.1), then the next market or the sort and the return
Pace ==
    /\ pc = "screening" /\ step = "sleep"
    /\ sleeps' = sleeps + SleepsAfter(outcomes[Len(outcomes)])
    /\ IF LoopDone(idx, Len(markets), outcomes[Len(outcomes)])
       THEN /\ Return(SortByScoreDesc(candidates))
            /\ step' = "none"
            /\ UNCHANGED <<idx, cur, calls>>
       ELSE /\ idx' = idx + 1
            /\ step' = "volume"
            /\ cur' = NoLocals
            /\ calls' = <<>>
            /\ UNCHANGED <<pc, passes, criteria, result, firstResult, report>>
    /\ UNCHANGED <<entry, markets, outcomes, candidates, ev>>

Next ==
    \/ StartFindGems
    \/ StartDailyScreening
    \/ StartWebSearch
    \/ GetMarkets
    \/ CheckVolume
    \/ CheckAthDecline
    \/ CheckVolatility
    \/ CheckCCI
    \/ CheckRSI
    \/ CheckVolumeGrowth
    \/ FetchTickerAndBuild
    \/ Pace

Spec == Init /\ [][Next]_vars

----------------------------------------------------------------------------
(* The criterion evaluators applied on their own: any criteria, any answer *)
(* of the exchange                                                         *)

orchestrator_vars ==
    <<pc, entry, passes, criteria, markets, idx, step, cur, calls,
      outcomes, candidates, result, firstResult, report, sleeps>>

AnyMarket == Mkt("KRW", "-", "XRP")

\* how the candle request of an evaluator went: the fetch failed (error
\* status or no candle), it returned fewer candles than the window, or
\* it returned enough
FetchKind(ex, count, window) ==
    LET candles == get_candles_daily(ex, count)
    IN  IF candles = <<>> THEN "failed"
        ELSE IF Len(candles) < window THEN "short"
        ELSE "ok"

Evaluation(name, c, kind, r) == [name |-> name, crit |-> c, kind |-> kind, result |-> r]

\* an evaluation with the answer info the collector gave the evaluator
EvaluationOf(name, c, kind, r, info) ==
    [name |-> name, crit |-> c, kind |-> kind, result |-> r, info |-> info]

EvalVolume ==
    /\ \E c \in CriteriaSet, ex \in Exchanges :
          ev' = Evaluation("volume", c, FetchKind(ex, 7, 1),
                           check_volume_criteria(c, AnyMarket, ex))
    /\ UNCHANGED orchestrator_vars

EvalAthDecline ==
    /\ \E c \in CriteriaSet, ex \in Exchanges :
          ev' = Evaluation("ath_decline", c, FetchKind(ex, 200, 1),
                           check_ath_decline_criteria(c, AnyMarket, ex))
    /\ UNCHANGED orchestrator_vars

EvalVolatility ==
    /\ \E c \in CriteriaSet, ex \in Exchanges, sigma \in VolatilityValues :
          ev' = Evaluation("volatility", c, FetchKind(ex, 30, 3),
                           check_volatility_criteria(c, AnyMarket, ex, sigma))
    /\ UNCHANGED orchestrator_vars

EvalCCI ==
    /\ \E c \in CriteriaSet, ex \in Exchanges, v \in CCIValues :
          ev' = Evaluation("cci", c, FetchKind(ex, 50, c.cci_period),
                           check_cci_criteria(c, AnyMarket, ex, v))
    /\ UNCHANGED orchestrator_vars

EvalRSI ==
    /\ \E c \in CriteriaSet, ex \in Exchanges, v \in RSIValues :
          ev' = Evaluation("rsi", c, FetchKind(ex, 50, c.rsi_period),
                           check_rsi_criteria(c, AnyMarket, ex, v))
    /\ UNCHANGED orchestrator_vars

EvalMarketCap ==
    /\ \E c \in CriteriaSet, response \in CapTickerResponses(AnyMarket) :
          ev' = EvaluationOf("market_cap", c,
                             IF get_ticker_info(<<AnyMarket>>, response) = <<>>
                             THEN "failed" ELSE "ok",
                             check_market_cap_criteria(c, AnyMarket, response),
                             get_market_cap(response, AnyMarket))
    /\ UNCHANGED orchestrator_vars

EvalVolumeGrowth ==
    /\ \E c \in CriteriaSet, ex \in Exchanges :
          ev' = Evaluation("volume_growth", c,
                           FetchKind(ex, c.volume_growth_days * 2, c.volume_growth_days * 2),
                           check_volume_growth_criteria(c, AnyMarket, ex))
    /\ UNCHANGED orchestrator_vars

EvalConsecutiveDecline ==
    /\ \E c \in CriteriaSet, ex \in TrendExchanges :
          ev' = EvaluationOf("consecutive_decline", c,
                             FetchKind(ex, c.max_consecutive_decline * 2, c.max_consecutive_decline),
                             check_consecutive_decline_criteria(c, AnyMarket, ex),
                             check_consecutive_decline(ex, c.max_consecutive_decline))
    /\ UNCHANGED orchestrator_vars

EvalRecentSpike ==
    /\ \E c \in CriteriaSet, ex \in TrendExchanges :
          ev' = EvaluationOf("recent_spike", c,
                             FetchKind(ex, c.recent_spike_days * 2, c.recent_spike_days),
                             check_recent_spike_criteria(c, AnyMarket, ex),
                             check_recent_spike(ex, c.recent_spike_days)
                                @@ [closes |-> Column(get_candles_daily(ex, c.recent_spike_days * 2),
                                                      "trade_price")])
    /\ UNCHANGED orchestrator_vars

EvalMovingAverage ==
    /\ \E c \in CriteriaSet, ex \in TrendExchanges :
          ev' = EvaluationOf("moving_average", c,
                             FetchKind(ex, c.ma_period + 10, c.ma_period),
                             check_moving_average_criteria(c, AnyMarket, ex),
                             get_price_vs_moving_average(ex, c.ma_period))
    /\ UNCHANGED orchestrator_vars

\* which candle of one history each evaluator reads as the most recent:
\* the current price of get_all_time_high, the row at which
\* check_cci_criteria and check_rsi_criteria read df[..].iloc[-1], and the
\* rows of the recent window of get_volume_growth
EvalLatestCandle ==
    /\ \E c \in CriteriaSet, ex \in Exchanges :
          LET candles == get_candles_daily(ex, 200)
              df      == get_ohlcv_dataframe(ex, 50)
              growth  == get_ohlcv_dataframe(ex, c.volume_growth_days * 2)
          IN  /\ Len(candles) >= c.volume_growth_days * 2
              /\ ev' = [ name             |-> "latest_candle",
                         kind             |-> "ok",
                         result           |-> <<TRUE>>,
                         rows             |-> Len(candles),
                         ath_current      |-> ath_current_candle(candles).candle_date_time_utc,
                         indicator_latest |-> iloc_last(df).timestamp,
                         growth_recent    |->
                             { iloc_tail(growth, c.volume_growth_days)[i].timestamp :
                                  i \in 1..c.volume_growth_days } ]
    /\ UNCHANGED orchestrator_vars

\* measured values of an asset: the arguments of the scorer
MeasuredVolumes == {0, 60, 150, 5000}

MeasuredDeclines == {0, 40, 60, 100}

MeasuredGrowths == {-40, 30, 150}

MeasuredValues ==
    [ volume        : MeasuredVolumes,
      ath           : {100},
      ath_decline   : MeasuredDeclines,
      volatility    : {3, 60, 120},
      cci           : {-250, 10},
      rsi           : {15, 55, 85},
      market_cap    : {50000, 120000},
      volume_growth : MeasuredGrowths ]

ScoreCriteriaSet == {ScenarioCriteria, GemsCriteria, ZeroFloorCriteria}

\* steps 8-15 of screen_single_market on measured values m, and
\* calculate_score on m with its measured market cap, applied once
EvalCandidate ==
    /\ ev = NoEval
    /\ \E c \in ScoreCriteriaSet, m \in MeasuredValues :
          ev' = [ name   |-> "candidate",
                  crit   |-> c,
                  kind   |-> "ok",
                  result |-> <<TRUE>>,
                  args   |-> m,
                  cand   |-> BuildCandidate(c, AnyMarket, m, 80),
                  score  |-> calculate_score(c, m.volume, m.ath_decline, m.volatility,
                                             m.cci, m.rsi, m.market_cap, m.volume_growth) ]
    /\ UNCHANGED orchestrator_vars

NextEval ==
    \/ EvalVolume
    \/ EvalAthDecline
    \/ EvalVolatility
    \/ EvalCCI
    \/ EvalRSI
    \/ EvalMarketCap
    \/ EvalVolumeGrowth
    \/ EvalConsecutiveDecline
    \/ EvalRecentSpike
    \/ EvalMovingAverage
    \/ EvalLatestCandle

SpecEval == Init /\ [][NextEval]_vars

\* close series of up to MaxSeriesLen rows, oldest row first
ClosePrices == {10, 20, 30, 40}

CloseSeries == UNION { [1..n -> ClosePrices] : n \in 1..MaxSeriesLen }

RSIPeriods == {2, 3}

\* _calculate_rsi_manual applied once to a close series; rsi is
\* df['RSI'].iloc[-1]
EvalRSIManual ==
    /\ ev = NoEval
    /\ \E prices \in CloseSeries, period \in RSIPeriods :
          LET column == calculate_rsi_manual(prices, period)
          IN  ev' = [ name   |-> "rsi_manual",
                      kind   |-> "ok",
                      result |-> <<TRUE>>,
                      prices |-> prices,
                      period |-> period,
                      column |-> column,
                      rsi    |-> iloc_last(column) ]
    /\ UNCHANGED orchestrator_vars

NextRSI == EvalRSIManual

SpecRSI == Init /\ [][NextRSI]_vars

\* the scorer applied on its own to any measured values
NextScore == EvalCandidate

SpecScore == Init /\ [][NextScore]_vars

----------------------------------------------------------------------------
(* screen_single_market as one step, on the data d the exchange holds for  *)
(* the market: its candle history and status, the indicator values         *)
(* computed from them, and its ticker response                             *)

\* the Optional[AltcoinCandidate] returned, as a sequence of 0 or 1
\* candidate, and the collector's cache afterwards
screen_single_market(c, market, d, cache) ==
    LET volume        == check_volume_criteria(c, market, d.ex)
        ath           == check_ath_decline_criteria(c, market, d.ex)
        volatility    == check_volatility_criteria(c, market, d.ex, d.sigma)
        cci           == check_cci_criteria(c, market, d.ex, d.cci)
        rsi           == check_rsi_criteria(c, market, d.ex, d.rsi)
        volume_growth == check_volume_growth_criteria(c, market, d.ex)
        ticker_info   == get_ticker_info(<<market>>, d.ticker)
        listing       == cached_listing_info(cache, market)
        m == [ volume |-> volume[2], ath |-> ath[2], ath_decline |-> ath[3],
               volatility |-> volatility[2], cci |-> cci[2], rsi |-> rsi[2],
               volume_growth |-> volume_growth[2] ]
        none == [candidate |-> <<>>, cache |-> cache]
    IN  IF ~volume[1] THEN none
        ELSE IF ~ath[1] THEN none
        ELSE IF ~volatility[1] THEN none
        ELSE IF ~cci[1] THEN none
        ELSE IF ~rsi[1] THEN none
        ELSE IF ~volume_growth[1] THEN none
        ELSE IF ticker_info = <<>> THEN none
        ELSE IF "trade_price" \notin DOMAIN ticker_info[1] THEN none   \* KeyError, caught at 531
        ELSE [ candidate |-> << BuildCandidateNamed(c, market, m, ticker_info[1].trade_price,
                                                    listing.info) >>,
               cache     |-> listing.cache ]

\* a history that meets the volume, decline and growth criteria of find_gems
PassingHistory == Dated(Rep(7, Candle(40, 100, 250, 10)) \o Rep(13, Candle(80, 100, 60, 15)))

\* a history that meets them with little to spare
WeakHistory == Dated(Rep(7, Candle(80, 100, 60, 10)) \o Rep(13, Candle(80, 100, 60, 15)))

\* what the exchange may hold for one market
ProfileKinds == {"quiet", "stretched", "weak", "volatile", "down", "no_price"}

ProfileOf(kind, market) ==
    [ ex     |-> [hist   |-> IF kind = "weak" THEN WeakHistory ELSE PassingHistory,
                  status |-> IF kind = "down" THEN 500 ELSE 200],
      sigma  |-> IF kind = "volatile" THEN 130 ELSE IF kind = "weak" THEN 12 ELSE 65,
      cci    |-> IF kind \in {"stretched", "weak"} THEN 190 ELSE 10,
      rsi    |-> IF kind \in {"stretched", "weak"} THEN 28 ELSE 50,
      ticker |-> [ status_code |-> 200,
                   json |-> IF kind = "no_price" THEN << [market |-> market] >>
                            ELSE << [market |-> market, trade_price |-> 80] >> ] ]

\* the orders in which GET /v1/market/all may list the markets
MarketOrders ==
    { q \in [1..Len(AllMarkets) -> 1..Len(AllMarkets)] :
        \A i, j \in 1..Len(AllMarkets) : i # j => q[i] # q[j] }

PassMarkets == { AllMarkets[i] : i \in {j \in 1..Len(AllMarkets) : StartsWithKRW(AllMarkets[j])} }

\* screen_all_markets of a new screener, called by find_gems or by
\* run_daily_screening, up to the first market
StartPass ==
    /\ pc = "idle" /\ ev = NoEval
    /\ \E c \in {GemsCriteria, BackupCriteria}, q \in MarketOrders,
          data \in [PassMarkets -> ProfileKinds] :
          LET response == [ status_code |-> 200,
                            json |-> [i \in 1..Len(AllMarkets) |-> [market |-> AllMarkets[q[i]]]] ]
          IN  /\ criteria' = c
              /\ markets' = screener_get_krw_markets(response)
              /\ ev' = [name |-> "pass", crit |-> c, data |-> data, cache |-> {}]
    /\ pc' = "pass"
    /\ idx' = 1
    /\ candidates' = <<>>
    /\ UNCHANGED <<entry, passes, step, cur, calls, outcomes, result,
                   firstResult, report, sleeps>>

\* one turn of the loop of screen_all_markets
ScreenMarket ==
    /\ pc = "pass" /\ idx <= Len(markets)
    /\ LET market == markets[idx]
           r      == screen_single_market(criteria, market,
                                          ProfileOf(ev.data[market], market), ev.cache)
       IN  /\ candidates' = candidates \o r.candidate
           /\ ev' = [ev EXCEPT !.cache = r.cache]
    /\ idx' = idx + 1
    /\ sleeps' = sleeps + 1
    /\ UNCHANGED <<pc, entry, passes, criteria, markets, step, cur, calls,
                   outcomes, result, firstResult, report>>

\* the sort and the return of screen_all_markets
FinishPass ==
    /\ pc = "pass" /\ idx > Len(markets)
    /\ result' = SortByScoreDesc(candidates)
    /\ pc' = "passed"
    /\ UNCHANGED <<entry, passes, criteria, markets, idx, step, cur, calls,
                   outcomes, candidates, firstResult, report, ev, sleeps>>

\* run_daily_screening after screen_all_markets returned
ReportPass ==
    /\ pc = "passed"
    /\ report' = generate_report(criteria, result)
    /\ pc' = "reported"
    /\ UNCHANGED <<entry, passes, criteria, markets, idx, step, cur, calls,
                   outcomes, candidates, result, firstResult, ev, sleeps>>

\* indicator values between the bands of the two criteria of find_gems
ChainVolatilities == VolatilityValues \cup {7, 130}

ChainRSIValues == RSIValues \cup {22, 28}

\* screen_single_market of the two screeners of find_gems on the same data
ScreenUnderBoth ==
    /\ pc = "idle" /\ ev = NoEval
    /\ \E ex \in Exchanges, sigma \in ChainVolatilities, v \in CCIValues,
          w \in ChainRSIValues, response \in TickerResponses(AnyMarket) :
          LET d == [ex |-> ex, sigma |-> sigma, cci |-> v, rsi |-> w, ticker |-> response]
          IN  ev' = [ name     |-> "both",
                      data     |-> d,
                      primary  |-> screen_single_market(GemsCriteria, AnyMarket, d, {}).candidate,
                      fallback |-> screen_single_market(BackupCriteria, AnyMarket, d, {}).candidate ]
    /\ UNCHANGED orchestrator_vars

----------------------------------------------------------------------------
(* AdvancedAltcoinScreener *)

\* item['market']: the value of a dict with that key; on a str the
\* subscript raises TypeError, here the empty sequence
subscript_market(item) ==
    IF DOMAIN item = {"market"} THEN <<item.market>> ELSE <<>>

\* what the exchange may hold for one market, with the total_score the
\* four signal analyses give on it (in points)
AdvancedKinds == {"rich", "fair", "short", "down"}

AdvancedProfileOf(kind) ==
    [ ex          |-> [ hist   |-> IF kind = "short" THEN Take(PassingHistory, 7)
                                   ELSE PassingHistory,
                        status |-> IF kind = "down" THEN 500 ELSE 200 ],
      total_score |-> IF kind = "rich" THEN 75 ELSE 30 ]

\* the Optional[Dict] returned, as a sequence of 0 or 1 result
analyze_accumulation_pattern(symbol, timeframe, d) ==
    LET period        == IF timeframe = "short" THEN 14 ELSE 60
        daily_candles == get_candles_daily(d.ex, period)
        close         == Column(daily_candles, "trade_price")
    IN  IF daily_candles = <<>> \/ Len(daily_candles) < 10 THEN <<>>
        ELSE << [ symbol        |-> symbol,
                  timeframe     |-> timeframe,
                  total_score   |-> d.total_score,
                  current_price |-> iloc_last(close) ] >>

\* candidates.sort(key=lambda x: x['total_score'], reverse=True)
RECURSIVE SortByTotalScoreDesc(_)
SortByTotalScoreDesc(cands) ==
    IF cands = <<>> THEN <<>>
    ELSE LET n      == Len(cands)
             last   == cands[n]
             sorted == SortByTotalScoreDesc(SubSeq(cands, 1, n - 1))
             k      == Cardinality({i \in 1..(n - 1) : sorted[i].total_score >= last.total_score})
         IN  SubSeq(sorted, 1, k) \o <<last>> \o SubSeq(sorted, k + 1, n - 1)

\* the loop of screen_advanced_patterns over the markets mkts
RECURSIVE AdvancedLoop(_, _, _)
AdvancedLoop(mkts, timeframe, data) ==
    IF mkts = <<>> THEN <<>>
    ELSE LET symbol == subscript_market(Head(mkts))
             rest   == AdvancedLoop(Tail(mkts), timeframe, data)
         IN  IF symbol = <<>> THEN rest       \* TypeError, caught at 888: continue
             ELSE LET r == analyze_accumulation_pattern(symbol[1], timeframe,
                                                        AdvancedProfileOf(data[symbol[1]]))
                  IN  IF r # <<>> /\ r[1].total_score >= 0 THEN r \o rest ELSE rest

screen_advanced_patterns(response, timeframe, data) ==
    LET mkts == get_krw_markets(response)
    IN  IF mkts = <<>> THEN <<>>
        ELSE SortByTotalScoreDesc(AdvancedLoop(Take(mkts, 50), timeframe, data))

\* screen_advanced_patterns applied once
ScreenAdvancedPatterns ==
    /\ pc = "idle" /\ ev = NoEval
    /\ \E response \in MarketResponses, timeframe \in {"short", "long"},
          data \in [PassMarkets -> AdvancedKinds] :
          ev' = [ name      |-> "advanced",
                  markets   |-> get_krw_markets(response),
                  timeframe |-> timeframe,
                  data      |-> data,
                  result    |-> screen_advanced_patterns(response, timeframe, data) ]
    /\ UNCHANGED orchestrator_vars

NextPass ==
    \/ ScreenAdvancedPatterns
    \/ StartPass
    \/ ScreenMarket
    \/ FinishPass
    \/ ReportPass
    \/ ScreenUnderBoth

SpecPass == Init /\ [][NextPass]_vars

----------------------------------------------------------------------------
(* Properties *)

EvaluatorNames == { StepOrder[i] : i \in 1..6 }

\* the order in which screen_single_market calls evaluators and fetches
FetchOrder == StepOrder \o << "listing_info" >>

\* screen_single_market has returned for markets[idx]
MarketDone == pc = "screening" /\ step = "sleep"

LastOutcome == outcomes[Len(outcomes)]

\* every evaluator was called for markets[idx] and returned pass
PassedAll ==
    \A name \in EvaluatorNames :
        \E i \in 1..Len(calls) : calls[i].name = name /\ calls[i].ok

GotPrice == \E i \in 1..Len(calls) : calls[i].name = "ticker" /\ calls[i].ok

HasCandidate(list, market) == \E k \in 1..Len(list) : list[k].symbol = market

\* a screen_all_markets pass has returned and its locals are still there
PassReturned == pc = "done" \/ (pc = "get_markets" /\ passes = 2)

Position(market) == CHOOSE k \in 1..Len(markets) : markets[k] = market

\* C1 as stated: an asset yields a Candidate exactly when all six
\* evaluators return pass, and nothing else decides.
C1_Original ==
    MarketDone => (LastOutcome = "candidate" <=> PassedAll)

\* C1, amended: an asset yields a Candidate exactly when all six
\* evaluators return pass and the ticker fetch that follows delivers a
\* trade price; the Candidate is then the one appended to the list.
C1_CandidateIffAllPassAndPrice ==
    MarketDone =>
        /\ LastOutcome = "candidate" <=> (PassedAll /\ GotPrice)
        /\ LastOutcome = "candidate" <=> HasCandidate(candidates, markets[idx])

C1_Witness ==
    MarketDone /\ PassedAll /\ GotPrice /\ HasCandidate(candidates, markets[idx])

\* the pass condition of every criterion of the record c, on the fields of
\* candidate x
MeetsAllCriteria(c, x) ==
    /\ x.volume_krw >= c.min_daily_volume_krw
    /\ x.ath_decline >= c.min_decline_from_ath
    /\ Between(c.volatility_min, x.volatility, c.volatility_max)
    /\ Between(c.cci_min, x.cci, c.cci_max)
    /\ Between(c.rsi_min, x.rsi, c.rsi_max)
    /\ x.volume_growth >= c.volume_growth_min
    /\ Between(c.min_market_cap_krw, x.market_cap, c.max_market_cap_krw)
    /\ x.consecutive_decline < c.max_consecutive_decline
    /\ x.recent_spike = "none"
    /\ c.require_above_ma => x.ma_position > 0

\* C2 as stated: every Candidate satisfies the pass condition of every
\* criterion of the criteria record, the four stubbed ones included.
C2_Original ==
    /\ \A k \in 1..Len(candidates) : MeetsAllCriteria(criteria, candidates[k])
    /\ PassReturned => \A k \in 1..Len(result) : MeetsAllCriteria(criteria, result[k])

\* C3: the calls made for an asset are a prefix of the fixed sequence
\* volume, ATH decline, volatility, CCI, RSI, volume growth, ticker,
\* listing info; only the last call can have failed, and an asset whose
\* last call failed has no Candidate.
C3_PrefixUntilFirstFail ==
    /\ Len(calls) <= Len(FetchOrder)
    /\ \A i \in 1..Len(calls) : calls[i].name = FetchOrder[i]
    /\ \A i \in 1..(Len(calls) - 1) : calls[i].ok
    /\ (MarketDone /\ ~calls[Len(calls)].ok) =>
           /\ LastOutcome # "candidate"
           /\ ~HasCandidate(candidates, markets[idx])

\* an asset whose average volume is below the floor, rejected after the
\* volume step alone
C3_Witness ==
    /\ MarketDone
    /\ Len(calls) = 1
    /\ calls[1].name = "volume" /\ ~calls[1].ok
    /\ calls[1].value > 0 /\ calls[1].value < criteria.min_daily_volume_krw
    /\ LastOutcome = "rejected"

\* the coins of the denylist, and their markets against KRW as the
\* exchange names them
DeniedCoins == { s[1] : s \in exclude_symbols }

Denylisted(market) == \E coin \in DeniedCoins : market = Mkt("KRW", "-", coin)

\* C4 as stated: no denylisted market is evaluated by screen_all_markets
\* or appears in its output.
C4_Original ==
    /\ \A i \in 1..Len(markets) : ~Denylisted(markets[i])
    /\ \A k \in 1..Len(result) : ~Denylisted(result[k].symbol)

\* C5: the returned list is in non-increasing score order, and candidates
\* of equal score are in the order their markets were enumerated.
C5_SortedStable ==
    \A i, j \in 1..Len(result) :
        i < j =>
            /\ result[i].score >= result[j].score
            /\ result[i].score = result[j].score =>
                   Position(result[i].symbol) < Position(result[j].symbol)

\* a returned list of three that the sort had to reorder and that has a tie
C5_Witness ==
    /\ pc = "done"
    /\ Len(result) = 3
    /\ result # candidates
    /\ \E i \in 1..2 : result[i].score = result[i + 1].score

\* C6: the recommendation of every Candidate is the tier of its own score,
\* with the fixed boundaries 80, 60 and 40 (inclusive).
C6_TierOfScore ==
    \A k \in 1..Len(candidates) :
        LET x == candidates[k]
        IN  /\ x.score >= Points(80) => x.recommendation = "highly recommended"
            /\ (x.score >= Points(60) /\ x.score < Points(80)) => x.recommendation = "recommended"
            /\ (x.score >= Points(40) /\ x.score < Points(60)) => x.recommendation = "watch"
            /\ x.score < Points(40) => x.recommendation = "needs review"

\* candidates of three different tiers in one list
C6_Witness ==
    /\ \E k \in 1..Len(candidates) : candidates[k].score >= Points(80)
    /\ \E k \in 1..Len(candidates) :
          candidates[k].score >= Points(60) /\ candidates[k].score < Points(65)
    /\ \E k \in 1..Len(candidates) : candidates[k].score < Points(60)

\* C7 as stated: an evaluator whose value cannot be computed (failed fetch
\* or fewer candles than its window) returns fail with a zero/neutral
\* measured value.
C7_Original ==
    (ev.name # "none" /\ ev.kind \in {"failed", "short"}) =>
        /\ ev.result[1] = FALSE
        /\ IF ev.name = "recent_spike"
           THEN ev.result[2] = "none"
           ELSE \A i \in 2..Len(ev.result) : ev.result[i] = 0

\* C8: when a pass returns, every market of the list has been screened,
\* whatever failed on the others, and the returned list holds exactly the
\* candidates of the markets that passed.
C8_FailureRejectsOnlyItsAsset ==
    PassReturned =>
        /\ Len(outcomes) = Len(markets)
        /\ Len(result) = Cardinality({i \in 1..Len(outcomes) : outcomes[i] = "candidate"})
        /\ \A i \in 1..Len(markets) :
              outcomes[i] = "candidate" <=> HasCandidate(result, markets[i])

\* an exception on one market, a fetch failure on the next, a candidate
\* from the third
C8_Witness ==
    /\ pc = "done"
    /\ Len(outcomes) = 3
    /\ outcomes[1] = "error" /\ outcomes[2] = "rejected" /\ outcomes[3] = "candidate"
    /\ Len(result) = 1

\* C9: with no market to screen, run_daily_screening evaluates nothing and
\* returns a report with total_candidates 0 and an empty candidate list.
C9_NoMarketsEmptyReport ==
    (entry = "run_daily_screening" /\ pc = "done" /\ markets = <<>>) =>
        /\ outcomes = <<>>
        /\ Get(report, "total_candidates", -1) = 0
        /\ Get(report, "candidates", << 0 >>) = <<>>

C9_Witness ==
    entry = "run_daily_screening" /\ pc = "done" /\ markets = <<>> /\ report # NoReport

\* C10: find_gems runs the backup pass exactly when the primary pass
\* returned no candidate, with the backup criteria, and runs no third pass.
C10_BackupIffPrimaryEmpty ==
    entry = "find_gems" =>
        /\ passes \in {1, 2}
        /\ passes = 2 => (firstResult = <<>> /\ criteria = BackupCriteria)
        /\ passes = 1 => criteria = GemsCriteria
        /\ (pc = "done" /\ passes = 1) => (firstResult # <<>> /\ result = firstResult)

\* an empty primary pass followed by an empty backup pass, and the end
C10_Witness ==
    entry = "find_gems" /\ pc = "done" /\ passes = 2 /\ result = <<>>

\* C11 as stated: when the web basic search finds no coin under the
\* displayed criteria, a second screening pass with looser criteria has
\* run before the response is returned.
C11_Original ==
    (entry = "web_search" /\ pc = "done" /\ report.candidates = <<>>) =>
        (passes = 2 /\ criteria # SearchCriteria)

\* a defined, finite number
Finite(x) == x \notin {NaN, Inf, -Inf}

FiniteCandidate(x) ==
    /\ Finite(x.score)
    /\ Finite(x.current_price) /\ Finite(x.volume_krw) /\ Finite(x.ath)
    /\ Finite(x.ath_decline) /\ Finite(x.volatility) /\ Finite(x.cci)
    /\ Finite(x.rsi) /\ Finite(x.market_cap) /\ Finite(x.volume_growth)
    /\ Finite(x.ma_position) /\ Finite(x.consecutive_decline)

\* C19: no Candidate carries an undefined or infinite score or measured
\* value: an asset whose RSI, CCI or volatility is undefined or infinite is
\* rejected by the evaluator.
C19_NoUndefinedInCandidates ==
    /\ \A k \in 1..Len(candidates) : FiniteCandidate(candidates[k])
    /\ \A k \in 1..Len(result) : FiniteCandidate(result[k])
    /\ \A i \in 1..Len(calls) : ~Finite(calls[i].value) => ~calls[i].ok

\* an asset with an infinite CCI is rejected after another asset became a
\* Candidate
C19_Witness ==
    /\ MarketDone /\ LastOutcome = "rejected"
    /\ calls[Len(calls)].name = "cci" /\ calls[Len(calls)].value = Inf
    /\ candidates # <<>>

\* C20: in a pass, one delay has been made for each market already
\* screened: idx - 1 while market idx is being evaluated, and one for every
\* market of the list when the pass returns; so each market's evaluation
\* is followed by exactly one delay before the next market's first fetch.
C20_OneDelayPerMarket ==
    /\ pc = "screening" => sleeps = idx - 1
    /\ pc = "screening" => Len(outcomes) = (IF step = "sleep" THEN idx ELSE idx - 1)
    /\ (PassReturned /\ markets # <<>>) => sleeps = Len(markets)

\* the second market is being fetched after a rejected first market and
\* one delay
C20_Witness ==
    /\ pc = "screening" /\ idx = 2 /\ step = "ath_decline"
    /\ outcomes[1] = "rejected"
    /\ sleeps = 1

----------------------------------------------------------------------------
(* Properties of the scorer (SpecScore) *)

Scored == ev.name = "candidate"

\* the pass conditions of the six evaluators screen_single_market calls,
\* on measured values a
PassesSix(c, a) ==
    /\ a.volume >= c.min_daily_volume_krw
    /\ a.ath_decline >= c.min_decline_from_ath
    /\ Between(c.volatility_min, a.volatility, c.volatility_max)
    /\ Between(c.cci_min, a.cci, c.cci_max)
    /\ Between(c.rsi_min, a.rsi, c.rsi_max)
    /\ a.volume_growth >= c.volume_growth_min

\* the asset of the scenario: volume 5e9, ATH decline 40, volatility 60,
\* CCI 10, RSI 55, market cap 1.2e11, volume growth 30
ScenarioAsset ==
    [ volume |-> 5000, ath |-> 100, ath_decline |-> 40, volatility |-> 60,
      cci |-> 10, rsi |-> 55, market_cap |-> 120000, volume_growth |-> 30 ]

InScenario == Scored /\ ev.crit = ScenarioCriteria /\ ev.args = ScenarioAsset

\* C12: under the scenario criteria the scenario asset passes every
\* criterion, its market cap band included, and its composite score, both
\* as calculate_score gives it on the measured values and as the Candidate
\* carries it, is at least 60, so the tier is "recommended" or higher.
C12_ScenarioRecommended ==
    InScenario =>
        /\ PassesSix(ev.crit, ev.args)
        /\ Between(ev.crit.min_market_cap_krw, ev.args.market_cap, ev.crit.max_market_cap_krw)
        /\ ev.score >= Points(60)
        /\ get_recommendation(ev.score) \in {"recommended", "highly recommended"}
        /\ ev.cand.score >= Points(60)
        /\ ev.cand.recommendation \in {"recommended", "highly recommended"}

\* the scenario is scored: 71.5 points on the measured values
C12_Witness == InScenario /\ 2 * ev.score = Points(143)

\* C13 as stated: under non-negative floors the score of a Candidate is
\* the sum of seven sub-scores, each between 0 and its cap (15, and 10 for
\* volume growth), and so lies between 0 and 100.  The volume sub-score is
\* taken as what the score leaves once the six others are subtracted.
C13_Original ==
    (Scored /\ PassesSix(ev.crit, ev.args)) =>
        LET x == ev.cand
            others == << ath_score(x.ath_decline), volatility_score(ev.crit, x.volatility),
                         cci_score(x.cci), rsi_score(x.rsi), market_cap_score(x.market_cap) >>
            vg == volume_growth_score(x.volume_growth)
            vs == x.score - SumSeq(others) - vg
        IN  /\ \A i \in 1..5 : 0 <= others[i] /\ others[i] <= Points(15)
            /\ 0 <= vg /\ vg <= Points(10)
            /\ 0 <= vs /\ vs <= Points(15)
            /\ 0 <= x.score /\ x.score <= Points(100)

\* the score of a Candidate is between 0 and 100; under a positive volume
\* floor it is the sum of the seven sub-scores, each between 0 and its
\* cap; under a zero volume floor the scorer returns 0.
ScoreWithinCaps ==
    (Scored /\ PassesSix(ev.crit, ev.args)) =>
        LET c == ev.crit
            x == ev.cand
            subs == << volume_score(c, x.volume_krw), ath_score(x.ath_decline),
                       volatility_score(c, x.volatility), cci_score(x.cci),
                       rsi_score(x.rsi), market_cap_score(x.market_cap) >>
            vg == volume_growth_score(x.volume_growth)
        IN  /\ 0 <= x.score /\ x.score <= Points(100)
            /\ c.min_daily_volume_krw > 0 =>
                  /\ \A i \in 1..6 : 0 <= subs[i] /\ subs[i] <= Points(15)
                  /\ 0 <= vg /\ vg <= Points(10)
                  /\ x.score = SumSeq(subs) + vg
            /\ c.min_daily_volume_krw = 0 => x.score = 0

\* C14: with a positive volume floor, a larger volume, ATH decline or
\* volume growth never gives a smaller sub-score nor a smaller overall
\* score, the other arguments being the same.
C14_MonotoneInGoodness ==
    (Scored /\ ev.crit.min_daily_volume_krw > 0) =>
        LET c == ev.crit
            a == ev.args
            Total(m) == calculate_score(c, m.volume, m.ath_decline, m.volatility,
                                        m.cci, m.rsi, m.market_cap, m.volume_growth)
        IN  /\ ev.score = Total(a)
            /\ \A v \in MeasuredVolumes : v >= a.volume =>
                  /\ volume_score(c, v) >= volume_score(c, a.volume)
                  /\ Total([a EXCEPT !.volume = v]) >= ev.score
            /\ \A d \in MeasuredDeclines : d >= a.ath_decline =>
                  /\ ath_score(d) >= ath_score(a.ath_decline)
                  /\ Total([a EXCEPT !.ath_decline = d]) >= ev.score
            /\ \A g \in MeasuredGrowths : g >= a.volume_growth =>
                  /\ volume_growth_score(g) >= volume_growth_score(a.volume_growth)
                  /\ Total([a EXCEPT !.volume_growth = g]) >= ev.score

\* an asset whose score rises with its ATH decline, and whose volume is
\* already past the cap of the volume sub-score
C14_Witness ==
    /\ Scored /\ ev.crit.min_daily_volume_krw > 0
    /\ ev.args.ath_decline = 60
    /\ ev.args.volume = 5000
    /\ \E d \in MeasuredDeclines :
          d > 60 /\ calculate_score(ev.crit, ev.args.volume, d, ev.args.volatility,
                                    ev.args.cci, ev.args.rsi, ev.args.market_cap,
                                    ev.args.volume_growth) > ev.score

\* the dimensions whose secondary threshold the measured values a match,
\* in the order volume, ATH decline, RSI, volatility, volume growth
MatchedDimensions(a) ==
       (IF a.volume > 100 THEN <<"volume">> ELSE <<>>)
    \o (IF a.ath_decline > 30 THEN <<"ath_decline">> ELSE <<>>)
    \o (IF a.rsi <= 70 THEN <<"rsi">> ELSE <<>>)
    \o (IF a.volatility < 50 \/ a.volatility > 100 THEN <<"volatility">> ELSE <<>>)
    \o (IF a.volume_growth > 20 THEN <<"volume_growth">> ELSE <<>>)

\* the dimension a phrase of the rationale speaks of
PhraseDimension(phrase) ==
    IF phrase[1] \in {"high volume", "sufficient volume"} THEN "volume"
    ELSE IF phrase[1] \in {"large upside room", "upside room"} THEN "ath_decline"
    ELSE IF phrase[1] \in {"stable RSI", "oversold"} THEN "rsi"
    ELSE IF phrase[1] \in {"stable volatility", "high volatility"} THEN "volatility"
    ELSE IF phrase[1] \in {"volume surge", "volume increase"} THEN "volume_growth"
    ELSE "default"

\* C15: the rationale is the default phrase exactly when no secondary
\* threshold is matched; otherwise it holds one phrase for each of the
\* first three matched dimensions, in the order volume, ATH decline, RSI,
\* volatility, volume growth.
C15_FirstThreeInOrder ==
    Scored =>
        LET reason  == ev.cand.reason
            matched == MatchedDimensions(ev.args)
        IN  /\ reason = << <<"basic conditions met">> >> <=> matched = <<>>
            /\ matched # <<>> =>
                  /\ Len(reason) = Min(3, Len(matched))
                  /\ \A i \in 1..Len(reason) : PhraseDimension(reason[i]) = matched[i]

\* all five dimensions match and the phrases of volatility and volume
\* growth are dropped
C15_Witness ==
    /\ Scored
    /\ Len(MatchedDimensions(ev.args)) = 5
    /\ Len(ev.cand.reason) = 3
    /\ PhraseDimension(ev.cand.reason[3]) = "rsi"

\* C16 as stated: the rationale of a Candidate holds the "high volume"
\* phrase exactly when its volume is more than twice the volume floor of
\* the criteria of the pass.
C16_Original ==
    (Scored /\ PassesSix(ev.crit, ev.args)) =>
        ((\E i \in 1..Len(ev.cand.reason) : ev.cand.reason[i] = <<"high volume">>)
            <=> ev.cand.volume_krw > 2 * ev.crit.min_daily_volume_krw)

----------------------------------------------------------------------------
(* Properties of the RSI formula (SpecRSI) *)

RSIComputed == ev.name = "rsi_manual"

IsConstant(prices) == \A i \in 1..Len(prices) : prices[i] = prices[1]

IsIncreasing(prices) == \A i \in 2..Len(prices) : prices[i] > prices[i - 1]

\* no negative close-to-close delta in the last window of the series
ZeroLossWindow(prices, period) ==
    /\ Len(prices) >= period
    /\ \A i \in (Len(prices) - period + 1)..Len(prices) :
          i >= 2 => prices[i] >= prices[i - 1]

\* C17 as stated: on a close series of at least period + 1 rows the latest
\* RSI is a defined number between 0 and 100: 50 on a constant series, 100
\* on a strictly increasing one.
C17_Original ==
    (RSIComputed /\ Len(ev.prices) >= ev.period + 1) =>
        /\ ev.rsi # NaN
        /\ 0 <= ev.rsi /\ ev.rsi <= 100
        /\ IsConstant(ev.prices) => ev.rsi = 50
        /\ IsIncreasing(ev.prices) => ev.rsi = 100

----------------------------------------------------------------------------
(* Properties of the evaluators that screen_single_market does not call    *)
(* (SpecEval)                                                              *)

Evaluated_(name) == ev.name = name

\* C21 as stated: check_recent_spike_criteria passes exactly when the
\* collector reports no single-day move larger than max_recent_spike in
\* the window, and its measured value is the collector's classification.
C21_Original ==
    (Evaluated_("recent_spike") /\ ev.kind = "ok") =>
        /\ ev.result[1] <=>
              (~FracGt(ev.info.max_change, ev.crit.max_recent_spike)
               /\ ~FracLt(ev.info.max_change, -ev.crit.max_recent_spike))
        /\ ev.result[2] = ev.info.spike_type

\* C22 as stated: with require_above_ma, check_moving_average_criteria
\* passes exactly when the current price is above its moving average, and
\* its measured value is the collector's percentage offset.
C22_Original ==
    (Evaluated_("moving_average") /\ ev.kind = "ok" /\ ev.crit.require_above_ma) =>
        /\ ev.result[1] <=> ev.info.current_price > ev.info.ma_value
        /\ ev.result[2] = ev.info.position

\* C23 as stated: check_consecutive_decline_criteria returns the
\* collector's count of consecutive declining days and passes exactly when
\* that count is below max_consecutive_decline.
C23_Original ==
    (Evaluated_("consecutive_decline") /\ ev.kind = "ok") =>
        /\ ev.result[2] = ev.info.consecutive_decline
        /\ ev.result[1] <=> ev.info.consecutive_decline < ev.crit.max_consecutive_decline

\* C24 as stated: check_market_cap_criteria returns the collector's
\* estimated market cap and passes exactly when the estimate lies in the
\* market cap band.
C24_Original ==
    Evaluated_("market_cap") =>
        /\ ev.result[2] = ev.info.market_cap_krw
        /\ ev.result[1] <=> Between(ev.crit.min_market_cap_krw, ev.info.market_cap_krw,
                                    ev.crit.max_market_cap_krw)

\* the classification of a percentage change
Classify(x) ==
    IF FracGt(x, 20) THEN "strong_up"
    ELSE IF FracGt(x, 10) THEN "moderate_up"
    ELSE IF FracLt(x, -20) THEN "strong_down"
    ELSE IF FracLt(x, -10) THEN "moderate_down"
    ELSE "none"

FracEq(x, y) == x.num * y.den = y.num * x.den

\* |x| <= |y| on fractions with positive denominators
AbsLeq(x, y) ==
    (IF x.num < 0 THEN -x.num ELSE x.num) * y.den
        <= (IF y.num < 0 THEN -y.num ELSE y.num) * x.den

\* the single-day changes check_recent_spike inspects in closes (newest
\* first) for a window of days days
WindowChanges(closes, days) ==
    [i \in 1..Min(days, Len(closes) - 1) |-> Change(closes[i], closes[i + 1])]

\* C28: in the collector's answer spike_type is the classification of
\* max_change, and max_change is a single-day change of the inspected
\* window that no other change of the window exceeds in absolute value (0
\* when every change is 0, and when the window is not inspected because
\* fewer than days candles came back).
C28_TypeClassifiesMaxChange ==
    Evaluated_("recent_spike") =>
        LET changes == WindowChanges(ev.info.closes, ev.crit.recent_spike_days)
            mc      == ev.info.max_change
        IN  /\ ev.info.spike_type = Classify(mc)
            /\ ev.kind = "ok" =>
                  /\ \A i \in 1..Len(changes) : AbsLeq(changes[i], mc)
                  /\ \/ \E i \in 1..Len(changes) : FracEq(changes[i], mc)
                     \/ mc.num = 0
            /\ ev.kind # "ok" => mc.num = 0

\* a strong fall is reported although the window also holds a rise
C28_Witness ==
    /\ Evaluated_("recent_spike") /\ ev.kind = "ok"
    /\ ev.info.spike_type = "strong_down"
    /\ \E i \in 1..Len(WindowChanges(ev.info.closes, ev.crit.recent_spike_days)) :
          WindowChanges(ev.info.closes, ev.crit.recent_spike_days)[i].num > 0

\* C25 as stated: on a candle sequence of at least 2 candles, the candle
\* whose close get_all_time_high takes as the current price is the candle
\* at which the CCI and RSI evaluators read the latest indicator value,
\* and it belongs to the recent window of get_volume_growth.
C25_Original ==
    (Evaluated_("latest_candle") /\ ev.rows >= 2) =>
        /\ ev.ath_current = ev.indicator_latest
        /\ ev.ath_current \in ev.growth_recent

----------------------------------------------------------------------------
(* Properties of a screening pass as a whole (SpecPass) *)

\* C26: an asset that screen_single_market returns as a candidate under
\* the primary criteria of find_gems is returned as a candidate under the
\* fallback criteria on the same data.
C26_FallbackNoStricter ==
    (ev.name = "both" /\ ev.primary # <<>>) => ev.fallback # <<>>

C26_Witness ==
    ev.name = "both" /\ ev.primary # <<>> /\ ev.fallback # <<>>

\* an asset only the fallback criteria let through
C26_FallbackOnly ==
    ev.name = "both" /\ ev.primary = <<>> /\ ev.fallback # <<>>

Range(q) == { q[i] : i \in 1..Len(q) }

\* the outcome of each market screened on its own, on a new collector
Alone(c, market, data) ==
    Range(screen_single_market(c, market, ProfileOf(data[market], market), {}).candidate)

\* C27: the set of candidates a pass returns is the union of the outcomes
\* of its markets each screened on their own, whatever the order of the
\* market list, and the criteria stay those the pass began with.
C27_OrderIndependent ==
    /\ pc \in {"pass", "passed", "reported"} => criteria = ev.crit
    /\ pc \in {"passed", "reported"} =>
          Range(result) = UNION { Alone(criteria, markets[i], ev.data) : i \in 1..Len(markets) }

\* a pass over the markets in another order than the listing order that
\* returns 2 or more candidates and rejects a market
C27_Witness ==
    /\ pc = "passed"
    /\ Len(result) >= 2
    /\ Len(result) < Len(markets)
    /\ markets # screener_get_krw_markets(
                    [status_code |-> 200,
                     json |-> [i \in 1..Len(AllMarkets) |-> [market |-> AllMarkets[i]]]])

\* the report of a pass that found at least one candidate
NonEmptyReport == pc = "reported" /\ report.total_candidates > 0

TierCounts ==
    report.summary.very_recommended + report.summary.recommended
        + report.summary.interesting

TopHasMaxScore ==
    \A i \in 1..Len(report.candidates) :
        report.summary.top_candidate.score >= report.candidates[i].score

\* C29 as stated: in a non-empty report total_candidates is the length of
\* the list, the tier counts sum to the total, and top_candidate has the
\* maximum score.
C29_Original ==
    NonEmptyReport =>
        /\ report.total_candidates = Len(report.candidates)
        /\ TierCounts = report.total_candidates
        /\ TopHasMaxScore

Scoring(lo, hi) ==
    Cardinality({ i \in 1..Len(report.candidates) :
                    /\ report.candidates[i].score >= Points(lo)
                    /\ report.candidates[i].score < Points(hi) })

\* C29, amended: in a non-empty report total_candidates is the length of
\* the list; the three tier counts count the candidates scoring 80 or
\* more, 60 to 80 and 40 to 60, so they sum to the number of candidates
\* scoring 40 or more, and a candidate below 40 is in no count;
\* top_candidate has the maximum score.
C29_CountsOfThreeTiers ==
    NonEmptyReport =>
        /\ report.total_candidates = Len(report.candidates)
        /\ report.summary.very_recommended = Scoring(80, 101)
        /\ report.summary.recommended = Scoring(60, 80)
        /\ report.summary.interesting = Scoring(40, 60)
        /\ TierCounts = report.total_candidates - Scoring(0, 40)
        /\ TopHasMaxScore

\* a report of three candidates of different scores, one of them below 40
C29_Witness ==
    /\ NonEmptyReport
    /\ report.total_candidates = 3
    /\ Scoring(0, 40) = 1
    /\ report.candidates[1].score > report.candidates[3].score

\* the results of analyze_accumulation_pattern on the first 50 markets
Analysed ==
    UNION { Range(analyze_accumulation_pattern(ev.markets[i], ev.timeframe,
                                               AdvancedProfileOf(ev.data[ev.markets[i]]))) :
              i \in 1..Min(50, Len(ev.markets)) }

\* C30 as stated: the output of screen_advanced_patterns holds exactly the
\* results of the markets, among the first 50 of get_krw_markets, for
\* which analyze_accumulation_pattern returned a result, sorted by
\* total_score in descending order.
C30_Original ==
    ev.name = "advanced" =>
        /\ Range(ev.result) = Analysed
        /\ \A i, j \in 1..Len(ev.result) :
              i < j => ev.result[i].total_score >= ev.result[j].total_score

====
